---- MODULE Spec2Model ----
(***************************************************************************)
(* Verification model of research-engine-mcp.                              *)
(*                                                                         *)
(*   SpecQueue : the SQLite job queue (services/simpleQueue.ts)            *)
(*   SpecOrch  : one executeResearch call (plugins/orchestrator.ts) on a   *)
(*               registry that is being loaded (simple-orchestrator.ts)    *)
(*   SpecConc  : the worker's concurrent executeResearch calls on one      *)
(*               shared orchestrator with every plugin registered          *)
(*   SpecServer: the single-process server (index.ts, runResearch);        *)
(*               SpecServerLive adds that awaited searches settle          *)
(*   SpecStream: GET /research/:jobId/stream polling the job queue         *)
(*   SpecAuth  : one request to the JSON-RPC endpoint POST /               *)
(*   SpecRegistry : the plugin registry under arbitrary calls              *)
(*   SpecRetry, SpecSearch : BaseSourcePlugin.search, one call with every  *)
(*               doSearch outcome, and several calls sharing the cache     *)
(*   SpecLifecycle : one JobLifecycle under arbitrary calls (types/job.ts)  *)
(*   SpecUsage : calls of the usage tool of the commands server            *)
(*   SpecWorker: SpecConc with the worker's 'progress' listeners           *)
(*                                                                         *)
(* Every specification starts from the same Init; the variables of the     *)
(* subsystems a specification does not exercise keep their initial value.  *)
(***************************************************************************)
EXTENDS Integers, Sequences, FiniteSets, TLC

\* ------------------------------------------------------------------------
\* Bounds
\* ------------------------------------------------------------------------
MaxJobs == 2        \* number of job ids uuidv4() may hand out
MaxTime == 1        \* last value of the unixepoch() clock
MaxRuns == 2        \* executeResearch calls on the shared orchestrator
MaxConcurrency == 2 \* new PluginOrchestrator(maxConcurrency)
MaxReports == 1     \* updateProgress calls the searches of one run make
MaxCleanups == 1    \* cleanupOldJobs calls
MaxServerJobs == 4  \* research_brief calls the server receives
MaxPolls == 3       \* runs of one stream's interval callback
MaxRegistryCalls == 4 \* calls of the registry's methods
MaxInstances == 2   \* plugin instances offered under one id
MaxSearches == 3    \* search calls of one plugin
MaxClock == 2       \* half TTLs the clock advances
MaxMessages == 102  \* messages one JobLifecycle is given
MaxUsageCalls == 2   \* calls of the usage tool

\* SQL NULL / JS undefined
NULL == "NULL"

JobIds == 1..MaxJobs
\* the clock is observed at whole days: daysOld * 24 * 60 * 60
SecondsPerDay == 24 * 60 * 60
Times == {d * SecondsPerDay : d \in 0..MaxTime}

\* ------------------------------------------------------------------------
\* SQLite job queue: services/simpleQueue.ts
\* ------------------------------------------------------------------------
VARIABLES
  jobs,          \* table jobs: id -> row
  job_progress,  \* table job_progress: job_id -> progress_data
  now,           \* unixepoch()
  lastNext,      \* what the last getNextJob() call returned: {} for null,
                 \* {id} for a job
  returned,      \* id uuidv4() has issued -> times getNextJob returned it
  lastCleanup    \* the last cleanupOldJobs call: argument and return value

queueVars == <<jobs, job_progress, now, lastNext, returned, lastCleanup>>


\* values a caller may pass as completeJob's result, and their JSON text
ResultValues == {"null", "obj"}
JSONstringify(v) == IF v = "null" THEN "null" ELSE "{\"result\":1}"

\* values a caller may pass as failJob's error
ErrorValues == {"boom"}

\* values a caller may pass as updateJobProgress's progress
ProgressValues == {50}

\* values a caller may pass as progressData (NULL: argument omitted)
ProgressData == {NULL, "{\"step\":1}"}

\* the row INSERT INTO jobs (id, data) creates, with the column defaults
NewRow ==
  [status |-> "pending", result |-> NULL, progress |-> 0,
   created_at |-> now, started_at |-> NULL, completed_at |-> NULL,
   attempts |-> 0, error |-> NULL]

InitQueue ==
  /\ jobs = <<>>
  /\ job_progress = <<>>
  /\ now = 0
  /\ lastNext = {}
  /\ returned = <<>>
  /\ lastCleanup = [calls |-> 0, daysOld |-> 0, changes |-> 0]

\* the clock advances between calls
Tick ==
  /\ now + SecondsPerDay \in Times
  /\ now' = now + SecondsPerDay
  /\ UNCHANGED <<jobs, job_progress, lastNext, returned, lastCleanup>>

\* uuidv4() never hands out an id twice
createJob ==
  /\ \E id \in JobIds \ DOMAIN returned :
       /\ jobs' = [i \in DOMAIN jobs \cup {id} |->
                     IF i = id THEN NewRow ELSE jobs[i]]
       /\ returned' = [i \in DOMAIN returned \cup {id} |->
                         IF i = id THEN 0 ELSE returned[i]]
  /\ UNCHANGED <<job_progress, now, lastNext, lastCleanup>>

NextCandidates_anyStatus ==
  LET pend == {i \in DOMAIN jobs : jobs[i].attempts < 3}
  IN {i \in pend : \A j \in pend : jobs[i].created_at <= jobs[j].created_at}

\* ORDER BY created_at is dropped
NextCandidates_anyOrder ==
  {i \in DOMAIN jobs : jobs[i].status = "pending" /\ jobs[i].attempts < 3}

\* rows the SELECT of getNextJob may return first: pending, attempts < 3,
\* least created_at (rows with equal created_at come in either order)
NextCandidates ==
  LET pend == {i \in DOMAIN jobs :
                 jobs[i].status = "pending" /\ jobs[i].attempts < 3}
  IN {i \in pend : \A j \in pend : jobs[i].created_at <= jobs[j].created_at}

getNextJob ==
  /\ IF NextCandidates = {}
       THEN /\ lastNext' = {}
            /\ UNCHANGED <<jobs, returned>>
       ELSE \E id \in NextCandidates :
              /\ jobs' = [jobs EXCEPT ![id].status = "processing",
                                      ![id].started_at = now,
                                      ![id].attempts = @ + 1]
              /\ lastNext' = {id}
              /\ returned' = [returned EXCEPT ![id] = @ + 1]
  /\ UNCHANGED <<job_progress, now, lastCleanup>>

\* an id absent from jobs updates no row; inserting its job_progress row
\* violates the foreign key and the transaction rolls back
updateJobProgress ==
  /\ \E id \in JobIds, p \in ProgressValues, pd \in ProgressData :
       IF id \in DOMAIN jobs
         THEN /\ jobs' = [jobs EXCEPT ![id].progress = p]
              /\ job_progress' =
                   IF pd # NULL
                     THEN [i \in DOMAIN job_progress \cup {id} |->
                             IF i = id THEN pd ELSE job_progress[i]]
                     ELSE job_progress
         ELSE UNCHANGED <<jobs, job_progress>>
  /\ UNCHANGED <<now, lastNext, returned, lastCleanup>>

completeJob ==
  /\ \E id \in JobIds, r \in ResultValues :
       IF id \in DOMAIN jobs
         THEN jobs' = [jobs EXCEPT ![id].status = "completed",
                                   ![id].result = JSONstringify(r),
                                   ![id].completed_at = now,
                                   ![id].progress = 100]
         ELSE UNCHANGED jobs
  /\ UNCHANGED <<job_progress, now, lastNext, returned, lastCleanup>>

failJob ==
  /\ \E id \in JobIds, e \in ErrorValues :
       IF id \in DOMAIN jobs
         THEN jobs' = [jobs EXCEPT ![id].status = "failed",
                                   ![id].error = e,
                                   ![id].completed_at = now]
         ELSE UNCHANGED jobs
  /\ UNCHANGED <<job_progress, now, lastNext, returned, lastCleanup>>

\* JSON.parse of a stored result text: the value completeJob was given
JSONparse(text) == IF text = "null" THEN "null" ELSE "obj"

\* JavaScript truthiness of a result value (NULL: undefined)
Truthy(v) == v \notin {NULL, "null"}

\* getJob: the Job made of the row; a NULL result column gives undefined
getJob(id) ==
  [status |-> jobs[id].status,
   result |-> IF jobs[id].result # NULL
                THEN JSONparse(jobs[id].result) ELSE NULL,
   progress |-> jobs[id].progress,
   error |-> jobs[id].error]

\* services/queue.ts getJobStatus of a stored job
getJobStatus(id) ==
  LET job == getJob(id)
  IN IF job.status = "completed" /\ Truthy(job.result)
       THEN [status |-> "completed", progress |-> 100]
     ELSE IF job.status = "failed"
       THEN [status |-> "failed", progress |-> job.progress]
     ELSE IF job.status = "processing"
       THEN [status |-> "active", progress |-> job.progress]
     ELSE [status |-> "waiting", progress |-> 0]

\* values a caller may pass as cleanupOldJobs's daysOld (default 7)
DaysOld == {0, 1, 7}

Deletable_inclusive(cutoff) ==
  {i \in DOMAIN jobs :
     /\ jobs[i].status \in {"completed", "failed"}
     /\ jobs[i].completed_at <= cutoff}

\* rows matching completed_at < ? AND status IN ('completed', 'failed');
\* completeJob and failJob both set completed_at, so it is not NULL here
Deletable(cutoff) ==
  {i \in DOMAIN jobs :
     /\ jobs[i].status \in {"completed", "failed"}
     /\ jobs[i].completed_at < cutoff}

cleanupOldJobs ==
  /\ lastCleanup.calls < MaxCleanups
  /\ \E daysOld \in DaysOld :
       LET cutoff == now - (daysOld * 24 * 60 * 60)
           old == Deletable(cutoff)
       IN /\ job_progress' =
               [i \in DOMAIN job_progress \ old |-> job_progress[i]]
          /\ jobs' = [i \in DOMAIN jobs \ old |-> jobs[i]]
          /\ lastCleanup' = [calls |-> lastCleanup.calls + 1,
                              daysOld |-> daysOld,
                              changes |-> Cardinality(old)]
  /\ UNCHANGED <<now, lastNext, returned>>


\* ------------------------------------------------------------------------
\* Plugin registry and orchestrator: plugins/registry.ts (second file of
\* plugins/simple-orchestrator.ts), plugins/orchestrator.ts, worker
\* ------------------------------------------------------------------------
VARIABLES
  loaded,         \* number of plugin files loadPlugin has processed
  sourcePlugins,  \* PluginRegistry.sourcePlugins, in insertion order
  exportPlugins,  \* PluginRegistry.exportPlugins, in insertion order
  redditReady,    \* RedditSourcePlugin.reddit is set (credentials given)
  run,            \* one executeResearch call per worker job
  limitQueue,     \* pLimit: queued calls <<run, plugin index>>, FIFO
  activeCount,    \* pLimit: calls running
  pluginObject,   \* the instances the two plugin Maps hold, by id
  pluginStats,    \* PluginRegistry.pluginStats: id -> statistics
  lastCall        \* the last call a client made on the registry, numbered

orchVars ==
  <<loaded, sourcePlugins, exportPlugins, redditReady, run, limitQueue,
    activeCount, pluginObject, pluginStats, lastCall>>

regVars == <<pluginObject, pluginStats, lastCall>>

RunIds == 1..MaxRuns

\* files initialize() loads: built-in sources, built-in exports, then the
\* custom plugin directory
PluginFiles ==
  << [id |-> "auto", type |-> "source"],
     [id |-> "github", type |-> "source"],
     [id |-> "reddit", type |-> "source"],
     [id |-> "websearch", type |-> "source"],
     [id |-> "markdown", type |-> "export"],
     [id |-> "custom", type |-> "source"],
     [id |-> "customjson", type |-> "export"] >>

\* ExportPlugin.format of each export plugin
Format(p) == IF p = "customjson" THEN "json" ELSE p

\* plugins that implement the interface directly instead of extending
\* BaseSourcePlugin / BaseExportPlugin
DirectPlugins == {"custom", "customjson"}

\* words of a query that the keyword lists of supports() look for
githubKeywords == {"github", "repository", "repo", "issue", "pr", "code"}
redditKeywords == {"reddit", "subreddit", "redditors"}

\* a query is the set of keywords it contains
Queries == {{}, {"code"}, {"code", "reddit"}}
\* percent values a search passes to context.updateProgress
PercentValues == {50}
\* context.preferences.sources: given FALSE when the brief has no sources
NoSources == [given |-> FALSE, list |-> {}]
Sources(list) == [given |-> TRUE, list |-> list]
SourcePrefs ==
  {NoSources, Sources({}), Sources({"reddit"})}
\* context.preferences.exportFormat (NULL: not given)
ExportPrefs == {NULL, "markdown", "json"}

\* sources?.includes(x)
Includes(sources, x) == sources.given /\ x \in sources.list

\* AutoSourcePlugin treats an empty list as a list of specific sources
supports_autoUndefinedOnly(p, query, sources) ==
  CASE p = "auto" -> ~sources.given
    [] p = "github" -> query \cap githubKeywords # {}
    [] p = "websearch" -> TRUE
    [] p = "reddit" ->
         /\ redditReady
         /\ (Includes(sources, "reddit") \/ query \cap redditKeywords # {})
    [] OTHER -> TRUE

supports(p, query, sources) ==
  CASE p = "auto" -> ~sources.given \/ sources.list = {}
    [] p = "github" -> query \cap githubKeywords # {}
    [] p = "websearch" -> TRUE
    [] p = "reddit" ->
         /\ redditReady
         /\ (Includes(sources, "reddit") \/ query \cap redditKeywords # {})
    [] OTHER -> TRUE

\* every registered plugin is returned, supports() is not consulted
getSourcePluginsForQuery_all(query, sources) == sourcePlugins

getSourcePluginsForQuery(query, sources) ==
  LET sup(p) == supports(p, query, sources)
  IN SelectSeq(sourcePlugins, sup)

\* index (0: none) of the first export plugin with the format
RECURSIVE FirstWithFormat(_, _)
FirstWithFormat(format, i) ==
  IF i > Len(exportPlugins) THEN 0
  ELSE IF Format(exportPlugins[i]) = format THEN i
  ELSE FirstWithFormat(format, i + 1)

getExportPlugin(format) ==
  LET i == FirstWithFormat(format, 1)
  IN IF i = 0 THEN NULL ELSE exportPlugins[i]

\* how a plugin's search(context) call can end:
\*   docs         success=true with documents
\*   empty        success=true, no documents
\*   unsuccessful success=false (BaseSourcePlugin.search catch)
\*   throws       the call throws or rejects
SearchOutcomes(p) ==
  CASE p = "auto" -> {"empty", "unsuccessful"}
    [] p \in DirectPlugins -> {"docs", "empty", "unsuccessful", "throws"}
    [] OTHER -> {"docs", "empty", "unsuccessful"}

\* how a plugin's export(analysis, context) call can end
ExportOutcomes(p) ==
  IF p \in DirectPlugins THEN {"ok", "throws"} ELSE {"ok", "unsuccessful"}

NoPlugins == "No plugins available for this query"
NoDocuments == "No documents collected from any source"
ExportFailed == "export failed"

\* ProgressTracker.phases weights
Weight(phase) ==
  CASE phase = "plugin_discovery" -> 5
    [] phase = "data_collection" -> 40
    [] phase = "analysis" -> 40
    [] phase = "export" -> 15

\* currentProgress is the fraction num / den, den the number of matched
\* plugins (40 / plugins.length is added per plugin)
Den(rec) == IF Len(rec.matched) = 0 THEN 1 ELSE Len(rec.matched)

\* ProgressTracker.getState().progress: Math.round(currentProgress)
Progress(rec) == (2 * rec.num + Den(rec)) \div (2 * Den(rec))

completePhase(rec, phase) ==
  IF phase \notin rec.phasesDone
    THEN [rec EXCEPT !.phasesDone = @ \cup {phase},
                     !.num = @ + Weight(phase) * Den(rec)]
    ELSE rec

addProgress(rec) ==
  LET sum == rec.num + 40
  IN [rec EXCEPT !.num = IF sum > 100 * Den(rec) THEN 100 * Den(rec) ELSE sum]

complete(rec) == [rec EXCEPT !.status = "completed", !.num = 100 * Den(rec)]

fail(rec, msg) == [rec EXCEPT !.status = "failed", !.error = msg]

\* this.emit('progress', progress.getState())
emit(rec) == [rec EXCEPT !.emitted = Append(@, Progress(rec))]

\* no AnalysisResult yet
NoAnalysis == [set |-> FALSE, totalDocuments |-> 0]

IdleRun ==
  [pc |-> "idle", sources |-> NoSources, exportFormat |-> NULL, matched |-> <<>>,
   task |-> <<>>, results |-> <<>>, num |-> 0, status |-> "running",
   phasesDone |-> {}, pluginProgress |-> <<>>, reports |-> 0, emitted |-> <<>>,
   error |-> NULL, analysis |-> NoAnalysis, exportPlugin |-> NULL,
   exportOutcome |-> NULL,
   jobStatus |-> "queued"]

InitRegistry ==
  /\ pluginObject = [source |-> <<>>, export |-> <<>>]
  /\ pluginStats = <<>>
  /\ lastCall = [n |-> 0, op |-> NULL, id |-> NULL]

InitOrch ==
  /\ loaded = 0
  /\ sourcePlugins = <<>>
  /\ exportPlugins = <<>>
  /\ redditReady = FALSE
  /\ run = [r \in RunIds |-> IdleRun]
  /\ limitQueue = <<>>
  /\ activeCount = 0
  /\ InitRegistry

Contains(s, x) == \E i \in 1..Len(s) : s[i] = x

\* the statistics a registration records for the id
NewStats ==
  [totalCalls |-> 0, successfulCalls |-> 0, failedCalls |-> 0,
   avgDuration |-> 0, lastError |-> NULL]

\* Map.set(id, value)
MapSet(map, id, value) ==
  [k \in DOMAIN map \cup {id} |-> IF k = id THEN value ELSE map[k]]

\* the call a client of the registry has just made
Called(op, id) == lastCall' = [n |-> lastCall.n + 1, op |-> op, id |-> id]

registerSourcePlugin(id, plugin) ==
  IF Contains(sourcePlugins, id)
    THEN UNCHANGED <<sourcePlugins, pluginObject, pluginStats>>
    ELSE /\ sourcePlugins' = Append(sourcePlugins, id)
         /\ pluginObject' =
              [pluginObject EXCEPT
                 !.source = MapSet(pluginObject.source, id, plugin)]
         /\ pluginStats' = MapSet(pluginStats, id, NewStats)

registerExportPlugin(id, plugin) ==
  IF Contains(exportPlugins, id)
    THEN UNCHANGED <<exportPlugins, pluginObject, pluginStats>>
    ELSE /\ exportPlugins' = Append(exportPlugins, id)
         /\ pluginObject' =
              [pluginObject EXCEPT
                 !.export = MapSet(pluginObject.export, id, plugin)]
         /\ pluginStats' = MapSet(pluginStats, id, NewStats)

\* durations updateStats is given
Durations == {10}

\* PluginRegistry.updateStats: the statistics afterwards
updateStats(stats, pluginId, success, duration) ==
  IF pluginId \notin DOMAIN stats THEN stats
  ELSE LET old == stats[pluginId]
           total == old.totalCalls + 1
       IN [stats EXCEPT ![pluginId] =
             [totalCalls |-> total,
              successfulCalls |-> old.successfulCalls
                                    + (IF success THEN 1 ELSE 0),
              failedCalls |-> old.failedCalls + (IF success THEN 0 ELSE 1),
              avgDuration |->
                (old.avgDuration * (total - 1) + duration) \div total,
              lastError |-> IF success THEN old.lastError ELSE "error"]]

\* PluginRegistry.loadPlugin on the next file: a new instance of its class
LoadPlugin ==
  /\ loaded < Len(PluginFiles)
  /\ LET file == PluginFiles[loaded + 1]
     IN /\ IF file.type = "source"
             THEN registerSourcePlugin(file.id, loaded + 1)
                    /\ UNCHANGED exportPlugins
             ELSE registerExportPlugin(file.id, loaded + 1)
                    /\ UNCHANGED sourcePlugins
        /\ IF file.id = "reddit"
             THEN redditReady' \in BOOLEAN
             ELSE UNCHANGED redditReady
  /\ loaded' = loaded + 1
  /\ UNCHANGED <<run, limitQueue, activeCount, lastCall>>

\* every queued call is started at once
Admitted_unbounded(queue, active) == Len(queue)

\* pLimit: the number of queued calls to start, so that no more than
\* MaxConcurrency are running
Admitted(queue, active) ==
  LET free == MaxConcurrency - active
      k == IF free < 0 THEN 0
           ELSE IF free < Len(queue) THEN free ELSE Len(queue)
  IN k

\* the runs after the first k calls of queue have been started
StartCalls(runs, queue, k) ==
  [r \in RunIds |->
     [runs[r] EXCEPT !.task =
        [i \in DOMAIN runs[r].task |->
           IF \E j \in 1..k : queue[j] = <<r, i>>
             THEN [runs[r].task[i] EXCEPT !.st = "running"]
             ELSE runs[r].task[i]]]]

Limiter(runs, queue, active) ==
  LET k == Admitted(queue, active)
  IN /\ run' = StartCalls(runs, queue, k)
     /\ limitQueue' = SubSeq(queue, k + 1, Len(queue))
     /\ activeCount' = active + k

\* executeSourcePlugin: the PluginExecutionResult of a settled search
ExecutionResult(p, outcome) ==
  [pluginId |-> p,
   status |-> IF outcome \in {"docs", "empty"} THEN "completed" ELSE "failed",
   documents |-> IF outcome = "docs" THEN 1 ELSE 0]

\* worker processResearchJob + executeResearch up to its first await
StartResearch(r, query, sources, fmt) ==
  /\ run[r].pc = "idle"
  /\ LET plugins == getSourcePluginsForQuery(query, sources)
           r0 == emit(emit([run[r] EXCEPT !.sources = sources,
                                          !.exportFormat = fmt,
                                          !.jobStatus = "running"]))
       IN IF Len(plugins) = 0
            THEN /\ run' = [run EXCEPT ![r] =
                              [emit(fail(r0, NoPlugins)) EXCEPT
                                 !.pc = "rejected", !.jobStatus = "failed"]]
                 /\ UNCHANGED <<limitQueue, activeCount>>
            ELSE LET r1 == [r0 EXCEPT !.matched = plugins]
                     r2 == emit(emit(completePhase(r1, "plugin_discovery")))
                     r3 == [r2 EXCEPT
                              !.pc = "collecting",
                              !.task = [i \in 1..Len(plugins) |->
                                          [st |-> "queued",
                                           outcome |-> NULL]]]
                     queue == limitQueue \o
                                [i \in 1..Len(plugins) |-> <<r, i>>]
                 IN Limiter([run EXCEPT ![r] = r3], queue, activeCount)
  /\ UNCHANGED <<loaded, sourcePlugins, exportPlugins, redditReady>>
  /\ UNCHANGED regVars

\* ProgressTracker.updatePlugin
updatePlugin(rec, pluginId, percent) ==
  [rec EXCEPT !.pluginProgress =
     [q \in DOMAIN rec.pluginProgress \cup {pluginId} |->
        IF q = pluginId THEN percent ELSE rec.pluginProgress[q]]]

\* a running search calls context.updateProgress(message, percent)
PluginReport(r, i) ==
  /\ i \in DOMAIN run[r].task
  /\ run[r].task[i].st = "running"
  /\ run[r].reports < MaxReports
  /\ \E percent \in PercentValues :
       run' = [run EXCEPT ![r] =
                 [emit(updatePlugin(run[r], run[r].matched[i], percent))
                    EXCEPT !.reports = @ + 1]]
  /\ UNCHANGED <<loaded, sourcePlugins, exportPlugins, redditReady,
                 limitQueue, activeCount>>
  /\ UNCHANGED regVars

\* analyzeDocuments up to its first await: sums the documents of the
\* COMPLETED results
TotalDocuments(results) ==
  LET RECURSIVE Sum(_)
      Sum(i) == IF i = 0 THEN 0
                ELSE Sum(i - 1) + (IF results[i].status = "completed"
                                     THEN results[i].documents ELSE 0)
  IN Sum(Len(results))

\* the results array drops the FAILED results
CollectResults_fulfilledOnly(rec) ==
  LET all == [i \in DOMAIN rec.task |->
                ExecutionResult(rec.matched[i], rec.task[i].outcome)]
      ok(x) == x.status = "completed"
  IN SelectSeq(all, ok)

\* executeSourcePlugins after Promise.allSettled: one result per plugin,
\* in the order of plugins
CollectResults(rec) ==
  [i \in DOMAIN rec.task |->
     ExecutionResult(rec.matched[i], rec.task[i].outcome)]

\* the zero-document check is missing
AfterCollection_noCheck(rec) ==
  [emit(emit(completePhase([rec EXCEPT !.results = CollectResults(rec)],
                           "data_collection")))
     EXCEPT !.pc = "analysis"]

\* executeResearch once executeSourcePlugins has returned, up to the await
\* of analyzeDocuments
AfterCollection(rec) ==
  LET results == CollectResults(rec)
      r1 == emit(emit(completePhase([rec EXCEPT !.results = results],
                                    "data_collection")))
  IN IF TotalDocuments(results) = 0
       THEN [emit(fail(r1, NoDocuments)) EXCEPT
               !.pc = "rejected", !.jobStatus = "failed"]
       ELSE [r1 EXCEPT !.pc = "analysis"]

\* the search of plugin i of run r settles: executeSourcePlugin returns,
\* the limiter callback adds the plugin's progress share, pLimit starts
\* the next queued call; the last search of a run lets allSettled resolve
SearchSettle(r, i) ==
  /\ i \in DOMAIN run[r].task
  /\ run[r].task[i].st = "running"
  /\ \E outcome \in SearchOutcomes(run[r].matched[i]),
          duration \in Durations :
       /\ LET r1 == emit(addProgress([run[r] EXCEPT
                                        !.task[i].st = "done",
                                        !.task[i].outcome = outcome]))
              allDone == \A j \in DOMAIN r1.task : r1.task[j].st = "done"
              r2 == IF allDone THEN AfterCollection(r1) ELSE r1
          IN Limiter([run EXCEPT ![r] = r2], limitQueue, activeCount - 1)
       /\ pluginStats' = updateStats(pluginStats, run[r].matched[i],
                                     outcome \in {"docs", "empty"}, duration)
  /\ UNCHANGED <<loaded, sourcePlugins, exportPlugins, redditReady,
                 pluginObject, lastCall>>

\* executeResearch lines 98-121 and the worker's lifecycle.succeed
Finish(rec) ==
  [emit(complete(rec)) EXCEPT !.pc = "resolved", !.jobStatus = "succeeded"]

\* analyzeDocuments returns: lines 85-96
AnalysisSettle(r) ==
  /\ run[r].pc = "analysis"
  /\ LET r1 == emit(completePhase(
                 [run[r] EXCEPT !.analysis =
                    [set |-> TRUE,
                     totalDocuments |-> TotalDocuments(run[r].results)]],
                 "analysis"))
     IN IF run[r].exportFormat = NULL
          THEN run' = [run EXCEPT ![r] = Finish(r1)]
          ELSE LET plugin == getExportPlugin(run[r].exportFormat)
                   r2 == emit(r1)
               IN IF plugin = NULL
                    THEN run' = [run EXCEPT ![r] =
                                   Finish(completePhase(r2, "export"))]
                    ELSE run' = [run EXCEPT ![r] =
                                   [r2 EXCEPT !.pc = "export",
                                              !.exportPlugin = plugin]]
  /\ UNCHANGED <<loaded, sourcePlugins, exportPlugins, redditReady,
                 limitQueue, activeCount>>
  /\ UNCHANGED regVars

\* exportPlugin.export(analysis, exportContext) settles: lines 93-96, 409
ExportSettle(r) ==
  /\ run[r].pc = "export"
  /\ \E outcome \in ExportOutcomes(run[r].exportPlugin) :
       LET r1 == [run[r] EXCEPT !.exportOutcome = outcome]
       IN IF outcome = "throws"
            THEN run' = [run EXCEPT ![r] =
                           [emit(fail(r1, ExportFailed)) EXCEPT
                              !.pc = "rejected", !.jobStatus = "failed"]]
            ELSE run' = [run EXCEPT ![r] =
                           Finish(completePhase(r1, "export"))]
  /\ UNCHANGED <<loaded, sourcePlugins, exportPlugins, redditReady,
                 limitQueue, activeCount>>
  /\ UNCHANGED regVars

\* ------------------------------------------------------------------------
\* Single-process server: index.ts (in-memory jobs, jobQueue) and
\* runResearch of plugins/simple-orchestrator.ts
\* ------------------------------------------------------------------------
VARIABLES
  srvJobs,    \* the jobs Map, in insertion order: uuid (position) -> job
  srvQueue,   \* jobQueue (pLimit): queued job ids, FIFO
  srvActive   \* jobQueue (pLimit): calls running

srvVars == <<srvJobs, srvQueue, srvActive>>

\* const jobQueue = pLimit(3)
JobConcurrency == 3

\* request.params.arguments of a research_brief call: absent, or an object
\* with its sources field
NoArgs == [given |-> FALSE, sources |-> NoSources]
Args(sources) == [given |-> TRUE, sources |-> sources]
ServerArgs ==
  {NoArgs, Args(NoSources), Args(Sources({})), Args(Sources({"github"}))}

\* what an awaited plugin.search(...) of runResearch may do
SimpleSearchOutcomes == {"returns", "throws"}

\* options.sources || ['github', 'websearch']
enabledSources(args) ==
  IF args.sources.given THEN args.sources.list ELSE {"github", "websearch"}

\* the job research_brief puts in the Map
NewJob(args) ==
  [status |-> "pending", progress |-> 0, args |-> args, pc |-> "queued",
   found |-> 0, result |-> FALSE, completedAt |-> FALSE]

\* onProgress: job.progress = Math.min(progress, 90)
onProgress(job, progress) ==
  [job EXCEPT !.progress = IF progress < 90 THEN progress ELSE 90]

\* runResearch returns and processResearchJob records the result
ResearchReturns(job) ==
  LET reported == onProgress(onProgress(job, 80), 100)
  IN [reported EXCEPT !.status = "completed", !.progress = 100,
                      !.result = TRUE, !.completedAt = TRUE, !.pc = "done"]

\* runResearch from the web search stage on
WebStage(job) ==
  IF "websearch" \in enabledSources(job.args)
    THEN [onProgress(job, 50) EXCEPT !.pc = "websearch"]
    ELSE ResearchReturns(job)

\* runResearch from the GitHub stage on
GitHubStage(job) ==
  IF "github" \in enabledSources(job.args)
    THEN [onProgress(job, 20) EXCEPT !.pc = "github"]
    ELSE WebStage(job)

\* the function given to jobQueue, up to its first pending await; reading
\* args.brief of absent arguments throws before processResearchJob is
\* called
Begin(job) ==
  IF ~job.args.given
    THEN [job EXCEPT !.pc = "rejected"]
    ELSE GitHubStage([job EXCEPT !.status = "processing", !.progress = 10])

Free_unbounded(active) == TRUE

\* pLimit starts a queued call only while fewer than 3 are running
Free(active) == active < JobConcurrency

RECURSIVE Drain(_, _, _)
\* pLimit: start queued calls while a slot is free; a call that settles
\* without awaiting a search gives its slot back at once
Drain(js, queue, active) ==
  IF queue = <<>> \/ ~Free(active)
    THEN [jobs |-> js, queue |-> queue, active |-> active]
    ELSE LET j == Head(queue)
             started == Begin(js[j])
             settled == started.pc \in {"rejected", "done"}
         IN Drain([js EXCEPT ![j] = started], Tail(queue),
                  IF settled THEN active ELSE active + 1)

InitServer ==
  /\ srvJobs = <<>>
  /\ srvQueue = <<>>
  /\ srvActive = 0

\* tools/call research_brief: jobs.set, jobQueue(...)
ResearchBrief(args) ==
  /\ Len(srvJobs) < MaxServerJobs
  /\ LET js == Append(srvJobs, NewJob(args))
         d == Drain(js, Append(srvQueue, Len(js)), srvActive)
     IN /\ srvJobs' = d.jobs
        /\ srvQueue' = d.queue
        /\ srvActive' = d.active

\* the search a job awaits settles: a returned search adds its results, a
\* thrown one is logged; runResearch goes on
SimpleSearchSettle(j, outcome) ==
  /\ j \in DOMAIN srvJobs
  /\ srvJobs[j].pc \in {"github", "websearch"}
  /\ LET job == srvJobs[j]
         got == IF outcome = "returns"
                  THEN [job EXCEPT !.found = @ + 1] ELSE job
         next == IF job.pc = "github" THEN WebStage(got)
                 ELSE ResearchReturns(got)
         js == [srvJobs EXCEPT ![j] = next]
     IN IF next.pc = "done"
          THEN LET d == Drain(js, srvQueue, srvActive - 1)
               IN /\ srvJobs' = d.jobs
                  /\ srvQueue' = d.queue
                  /\ srvActive' = d.active
          ELSE /\ srvJobs' = js
               /\ UNCHANGED <<srvQueue, srvActive>>

\* ------------------------------------------------------------------------
\* Progress stream: GET /research/:jobId/stream of index.ts
\* ------------------------------------------------------------------------
VARIABLES
  sse   \* one connection: its interval, lastStatus and what it has written

sseVars == <<sse>>

InitStream ==
  sse = [connected |-> FALSE, polling |-> FALSE, jobId |-> 0,
         lastStatus |-> "", log |-> <<>>, polls |-> 0]

\* the request arrives: headers, the 'connected' frame, setInterval
Connect(jobId) ==
  /\ ~sse.connected
  /\ sse' = [sse EXCEPT !.connected = TRUE, !.polling = TRUE,
                        !.jobId = jobId, !.log = <<"connected">>]

IsFinal_completedOnly(status) == status = "completed"

\* job.status === 'completed' || job.status === 'failed'
IsFinal(status) == status \in {"completed", "failed"}

\* one run of the interval callback; getJob returns null for an unknown id
Poll ==
  /\ sse.polling
  /\ sse.polls < MaxPolls
  /\ IF sse.jobId \in DOMAIN jobs
       THEN LET status == jobs[sse.jobId].status
                written == Append(sse.log, "progress")
            IN IF IsFinal(status) /\ sse.lastStatus # status
                 THEN sse' = [sse EXCEPT !.log = written \o <<status, "end">>,
                                         !.polling = FALSE,
                                         !.lastStatus = status,
                                         !.polls = @ + 1]
                 ELSE sse' = [sse EXCEPT !.log = written,
                                         !.lastStatus = status,
                                         !.polls = @ + 1]
       ELSE sse' = [sse EXCEPT !.polls = @ + 1]

\* req.on('close'): the client goes away
ClientClose ==
  /\ sse.polling
  /\ sse' = [sse EXCEPT !.polling = FALSE]

\* ------------------------------------------------------------------------
\* JSON-RPC endpoint POST / of index.ts and auth/verifyToken.ts
\* ------------------------------------------------------------------------
VARIABLES
  req   \* one request to POST /, the environment it meets, and how far it got

authVars == <<req>>

publicMethods ==
  {"initialize", "notifications/initialized", "tools/list",
   "resources/list", "prompts/list"}

\* request.method
Methods == publicMethods \cup {"tools/call", "unknown/method"}

\* process.env.SKIP_AUTH and process.env.NODE_ENV
SkipAuthValues == {"unset", "true", "false"}
NodeEnvValues == {"unset", "development", "production"}

\* the Authorization header: absent, a Bearer token verifyToken rejects, a
\* Bearer token verifyToken accepts
Tokens == {"none", "invalid", "valid"}

NoUser == "none"

\* the request has arrived; nothing has been decided
InitAuth ==
  req \in [method : Methods, skipAuth : SkipAuthValues,
           nodeEnv : NodeEnvValues, token : Tokens,
           stage : {"received"}, user : {NoUser}, status : {0}]

\* authMiddleware: calls next() with req.user set, or answers 401 and never
\* calls next()
authMiddleware(r) ==
  IF r.skipAuth = "true" /\ r.nodeEnv = "development"
    THEN [r EXCEPT !.user = "dev-user", !.stage = "gated"]
  ELSE IF r.token = "valid"
    THEN [r EXCEPT !.user = "jwt", !.stage = "gated"]
    ELSE [r EXCEPT !.status = 401, !.stage = "unauthorized"]

\* the gate at the head of app.post('/')
AuthGate ==
  /\ req.stage = "received"
  /\ LET requiresAuth == req.method \notin publicMethods
     IN IF requiresAuth /\ req.skipAuth # "true"
          THEN req' = authMiddleware(req)
        ELSE IF req.skipAuth = "true" /\ req.nodeEnv = "development"
          THEN req' = [req EXCEPT !.user = "dev-user", !.stage = "gated"]
          ELSE req' = [req EXCEPT !.stage = "gated"]

\* switch (request.method): tools/call goes to the tool handler, everything
\* else is answered in place
Dispatch ==
  /\ req.stage = "gated"
  /\ req' = [req EXCEPT
               !.stage = IF req.method = "tools/call" THEN "tool"
                         ELSE "answered",
               !.status = 200]

\* ------------------------------------------------------------------------
\* BaseSourcePlugin.search: plugins/base.ts, utils/retry.ts, utils/cache.ts
\* ------------------------------------------------------------------------
VARIABLES
  memoryCache,  \* utils/cache.ts memoryCache: key -> value and expiry
  clock,        \* Date.now(), in seconds
  search,       \* the search calls of one plugin, by call number
  stored        \* key -> when a search last stored a fresh result

searchVars == <<memoryCache, clock, search, stored>>

\* getCacheTTL()
CacheTTL == 3600

\* withRetry(..., { retries: 3 }): p-retry runs the function once and then
\* up to retries more times
Retries == 3

SearchCalls == 1..MaxSearches

\* context.depth of a call (NULL: not given)
Depths == {NULL, "standard", "deep"}
SearchQuery == "q"
PluginId == "github"

\* getCacheKey: `${this.id}:${context.query}:${context.depth || 'standard'}`
getCacheKey(depth) ==
  <<PluginId, SearchQuery, IF depth = NULL THEN "standard" ELSE depth>>

CacheKeys == {getCacheKey(depth) : depth \in Depths}

\* what one doSearch invocation may do: return a result with success true
\* or false, or throw an error with status 400 or another error
DoSearchOutcomes == {"success", "unsuccessful", "throws400", "throws"}
Throws == {"throws400", "throws"}

IdleSearch ==
  [pc |-> "idle", depth |-> NULL, invoked |-> 0, first400 |-> FALSE,
   success |-> FALSE, cached |-> FALSE, code |-> NULL, at |-> 0]

NoEntry == [set |-> FALSE, at |-> 0]

InitSearch ==
  /\ memoryCache = <<>>
  /\ clock = 0
  /\ search = [c \in SearchCalls |-> IdleSearch]
  /\ stored = [k \in CacheKeys |-> NoEntry]

\* time passes, half a TTL at a time
ClockTick ==
  /\ clock < MaxClock * (CacheTTL \div 2)
  /\ clock' = clock + (CacheTTL \div 2)
  /\ UNCHANGED <<memoryCache, search, stored>>

\* the periodic clean-up of utils/cache.ts
CleanupExpired ==
  /\ \E k \in DOMAIN memoryCache : memoryCache[k].expires < clock
  /\ memoryCache' =
       [k \in {e \in DOMAIN memoryCache : ~(memoryCache[e].expires < clock)}
          |-> memoryCache[k]]
  /\ UNCHANGED <<clock, search, stored>>

\* cacheGet: the value held under the key if it has not expired, else null
cacheGet(cache, key) ==
  IF key \in DOMAIN cache /\ cache[key].expires > clock
    THEN cache[key].value ELSE "null"

\* cacheSet
cacheSet(cache, key, value, ttl) ==
  [k \in DOMAIN cache \cup {key} |->
     IF k = key THEN [value |-> value, expires |-> clock + ttl]
     ELSE cache[k]]

\* withCache(prefix, data, fn, ttl) where fn returns value: the cache
\* afterwards
withCache(cache, key, value, ttl) ==
  IF cacheGet(cache, key) # "null" THEN cache
  ELSE cacheSet(cache, key, value, ttl)

\* handleError
handleError(outcome) ==
  IF outcome = "throws400" THEN "USER_ERROR" ELSE "PERM_ERROR"

\* search() up to the first doSearch: checkCache and the cached return
BeginSearch(c, depth) ==
  /\ search[c].pc = "idle"
  /\ \A b \in 1..(c - 1) : search[b].pc # "idle"
  /\ LET key == getCacheKey(depth)
         cached == cacheGet(memoryCache, key)
     IN /\ memoryCache' = withCache(memoryCache, key, "null", 0)
        /\ search' = [search EXCEPT ![c] =
             IF cached # "null"
               THEN [@ EXCEPT !.pc = "returned", !.depth = depth,
                              !.success = (cached = "ok"),
                              !.cached = TRUE, !.at = clock]
               ELSE [@ EXCEPT !.pc = "attempt", !.depth = depth]]
  /\ UNCHANGED <<clock, stored>>

ShouldCache_always(outcome) == TRUE

\* if (result.success) await this.cacheResult(cacheKey, result)
ShouldCache(outcome) == outcome = "success"

\* one doSearch invocation under withRetry settles
Attempt(c, outcome) ==
  /\ search[c].pc = "attempt"
  /\ LET key == getCacheKey(search[c].depth)
         n == search[c].invoked + 1
         tried == [search[c] EXCEPT
                     !.invoked = n,
                     !.first400 = IF n = 1 THEN outcome = "throws400" ELSE @]
         fresh == ~(stored[key].set /\ clock - stored[key].at < CacheTTL)
     IN IF outcome \in Throws
          THEN /\ search' = [search EXCEPT ![c] =
                    IF n < Retries + 1 THEN tried
                    ELSE [tried EXCEPT !.pc = "returned", !.at = clock,
                                       !.code = handleError(outcome)]]
               /\ UNCHANGED <<memoryCache, stored>>
          ELSE /\ search' = [search EXCEPT ![c] =
                    [tried EXCEPT !.pc = "returned", !.at = clock,
                                  !.success = (outcome = "success")]]
               /\ memoryCache' =
                    IF ShouldCache(outcome)
                      THEN withCache(memoryCache, key,
                             IF outcome = "success" THEN "ok" ELSE "failed",
                             CacheTTL)
                      ELSE memoryCache
               /\ stored' =
                    IF outcome = "success" /\ fresh
                      THEN [stored EXCEPT ![key] =
                              [set |-> TRUE, at |-> clock]]
                      ELSE stored
  /\ UNCHANGED clock

\* ------------------------------------------------------------------------
\* JobLifecycle: types/job.ts
\* ------------------------------------------------------------------------
VARIABLES
  lifecycle   \* one JobLifecycle: its progress object; messages are
              \* numbered in the order addMessage received them (added),
              \* op is the method called last

\* if (this.progress.messages.length > 100)
MessageLimit == 100

\* new JobLifecycle(jobId): messages: ['Job created']
InitLifecycle ==
  lifecycle = [status |-> "queued", percentComplete |-> 0,
               currentStep |-> "Initializing", messages |-> <<1>>,
               pluginStatuses |-> <<>>, added |-> 1, op |-> "constructor"]

\* the log is never cut
addMessage_noTrim(lc) ==
  [lc EXCEPT !.messages = Append(@, lc.added + 1), !.added = @ + 1]

\* push, then keep the last 100: messages.slice(-100)
addMessage(lc) ==
  LET pushed == Append(lc.messages, lc.added + 1)
      n == Len(pushed)
  IN [lc EXCEPT !.messages = IF n > MessageLimit
                               THEN SubSeq(pushed, n - MessageLimit + 1, n)
                               ELSE pushed,
                !.added = @ + 1]

start ==
  /\ lifecycle.added < MaxMessages
  /\ lifecycle' = addMessage([lifecycle EXCEPT !.status = "running",
                                               !.op = "start"])

\* percentComplete is <<>> when the argument is omitted and <<p>> when it
\* is p: Math.min(100, Math.max(0, p))
updateStep(step, percentComplete) ==
  /\ lifecycle.added < MaxMessages
  /\ LET p == percentComplete[1]
         clamped == IF p < 0 THEN 0 ELSE IF p > 100 THEN 100 ELSE p
     IN lifecycle' =
          addMessage([lifecycle EXCEPT
                        !.currentStep = step,
                        !.percentComplete =
                          IF percentComplete = <<>> THEN @ ELSE clamped,
                        !.op = "updateStep"])

\* a terminal status is left alone
overallStatus_keepTerminal(status, pluginStatuses) ==
  IF /\ status \notin {"succeeded", "failed", "cancelled"}
     /\ \E q \in DOMAIN pluginStatuses : pluginStatuses[q] = "failed"
     /\ \E q \in DOMAIN pluginStatuses : pluginStatuses[q] = "completed"
    THEN "partial_ok" ELSE status

\* hasFailures && hasSuccesses: PARTIAL_OK, otherwise the status stays
overallStatus(status, pluginStatuses) ==
  IF /\ \E q \in DOMAIN pluginStatuses : pluginStatuses[q] = "failed"
     /\ \E q \in DOMAIN pluginStatuses : pluginStatuses[q] = "completed"
    THEN "partial_ok" ELSE status

\* status NULL: the Partial<PluginJobStatus> has no status field
updatePluginStatus(pluginId, status) ==
  LET old == IF pluginId \in DOMAIN lifecycle.pluginStatuses
               THEN lifecycle.pluginStatuses[pluginId] ELSE "pending"
      assigned == MapSet(lifecycle.pluginStatuses, pluginId,
                         IF status = NULL THEN old ELSE status)
  IN lifecycle' =
       [lifecycle EXCEPT
          !.pluginStatuses = assigned,
          !.status = overallStatus(lifecycle.status, assigned),
          !.op = "updatePluginStatus"]

succeed ==
  /\ lifecycle.added < MaxMessages
  /\ lifecycle' = addMessage([lifecycle EXCEPT !.status = "succeeded",
                                               !.percentComplete = 100,
                                               !.op = "succeed"])

lifecycleFail ==
  /\ lifecycle.added < MaxMessages
  /\ lifecycle' = addMessage([lifecycle EXCEPT !.status = "failed",
                                               !.op = "fail"])

cancel ==
  /\ lifecycle.added < MaxMessages
  /\ lifecycle' = addMessage([lifecycle EXCEPT !.status = "cancelled",
                                               !.op = "cancel"])

\* ------------------------------------------------------------------------
\* usage tool: usageTool.handler of the commands server (unnamed/part_016)
\* ------------------------------------------------------------------------
VARIABLES
  usage   \* the handler calls: position, inputs, whether fetch was called,
          \* how the gateway answered, and the value the promise settled to

\* no call has been made
InitUsage ==
  usage = [c \in 1..MaxUsageCalls |->
             [pc |-> "idle", jwt |-> NULL, configured |-> FALSE,
              requested |-> FALSE, response |-> NULL, error |-> NULL]]

\* context.jwt is not looked at
hasJwt_always(jwt) == TRUE

\* context?.jwt is truthy (NULL: no context or no jwt field)
hasJwt(jwt) == jwt \notin {NULL, ""}

\* handler(args, context) up to its first await; org is COMMANDS_ORG, the
\* server name is npm_package_name || MCP_NAME
usageHandler(c, jwt, org, npmName, mcpName) ==
  /\ usage[c].pc = "idle"
  /\ LET serverName == IF npmName \notin {NULL, ""} THEN npmName ELSE mcpName
         configured == org \notin {NULL, ""} /\ serverName \notin {NULL, ""}
         call == [usage[c] EXCEPT !.jwt = jwt, !.configured = configured]
     IN usage' =
          [usage EXCEPT ![c] =
             IF ~hasJwt(jwt)
               THEN [call EXCEPT !.pc = "resolved",
                                 !.error = "Authentication required"]
             ELSE IF ~configured
               THEN [call EXCEPT !.pc = "resolved",
                                 !.error = "Configuration required"]
             ELSE [call EXCEPT !.pc = "fetching", !.requested = TRUE]]

\* catch (error: any): fetch, text() and json() reject with a TypeError or
\* a SyntaxError, a TypeError is thrown on data.limits of a null body; a
\* thrown value without a message property would make the handler reject
catchError(call, thrown) ==
  IF thrown \in {"TypeError", "SyntaxError"}
    THEN [call EXCEPT !.pc = "resolved",
                      !.error = "Failed to fetch usage stats"]
    ELSE [call EXCEPT !.pc = "rejected"]

\* the fetch settles: a response (ok or not), or a network failure
FetchSettle(c, outcome) ==
  /\ usage[c].pc = "fetching"
  /\ usage' =
       [usage EXCEPT ![c] =
          CASE outcome = "ok" -> [@ EXCEPT !.pc = "json", !.response = "ok"]
            [] outcome = "notOk" ->
                 [@ EXCEPT !.pc = "text", !.response = "notOk"]
            [] outcome = "networkError" ->
                 catchError([@ EXCEPT !.response = "networkError"],
                            "TypeError")]

\* response.text() or response.json() settles: the body is read, or the
\* read fails, or the JSON is invalid, or the JSON value is null
BodySettle(c, outcome) ==
  /\ usage[c].pc \in {"text", "json"}
  /\ usage' =
       [usage EXCEPT ![c] =
          CASE outcome = "readError" -> catchError(@, "TypeError")
            [] outcome = "body" /\ usage[c].pc = "text" ->
                 [@ EXCEPT !.pc = "resolved",
                           !.error = "Failed to get usage stats"]
            [] outcome = "body" /\ usage[c].pc = "json" ->
                 [@ EXCEPT !.pc = "resolved"]
            [] outcome = "invalid" ->
                 IF usage[c].pc = "json" THEN catchError(@, "SyntaxError")
                 ELSE [@ EXCEPT !.pc = "resolved",
                                !.error = "Failed to get usage stats"]
            [] outcome = "null" ->
                 IF usage[c].pc = "json" THEN catchError(@, "TypeError")
                 ELSE [@ EXCEPT !.pc = "resolved",
                                !.error = "Failed to get usage stats"]]

\* ------------------------------------------------------------------------
\* BullMQ worker: processResearchJob of the worker (unnamed/part_004)
\* ------------------------------------------------------------------------
VARIABLES
  workerJob   \* per worker job: percentComplete of its JobLifecycle and the
              \* progress last given to job.updateProgress

\* the listeners of the shared orchestrator's 'progress' event during one
\* step of its runs: each processResearchJob call that has started has
\* registered one and none is ever removed; emit calls them all, in order,
\* for each event; a run that resolves is followed by lifecycle.succeed
OnProgressEvent ==
  workerJob' =
    [k \in RunIds |->
       LET Added(r) == SubSeq(run'[r].emitted, Len(run[r].emitted) + 1,
                              Len(run'[r].emitted))
           emitters == {r \in RunIds : Added(r) # <<>>}
           handled ==
             IF run'[k].pc = "idle" \/ emitters = {}
               THEN workerJob[k]
               ELSE LET events == Added(CHOOSE r \in emitters : TRUE)
                        progress == events[Len(events)]
                    IN [percentComplete |->
                          IF progress < 0 THEN 0
                          ELSE IF progress > 100 THEN 100 ELSE progress,
                        progress |-> progress]
       IN IF run'[k].pc = "resolved" /\ run[k].pc # "resolved"
            THEN [handled EXCEPT !.percentComplete = 100]
            ELSE handled]

\* the subsystems no queue, orchestrator, server or search action touches
otherVars == <<lifecycle, usage, workerJob>>

vars ==
  <<queueVars, orchVars, srvVars, sseVars, authVars, searchVars, otherVars>>

\* the request the other specifications leave untouched
IdleRequest ==
  req = [method |-> "initialize", skipAuth |-> "unset", nodeEnv |-> "unset",
         token |-> "none", stage |-> "received", user |-> NoUser,
         status |-> 0]

\* those subsystems before their first call
InitOther ==
  /\ InitLifecycle
  /\ InitUsage
  /\ workerJob = [k \in RunIds |-> [percentComplete |-> 0, progress |-> 0]]

Init ==
  /\ InitQueue /\ InitOrch /\ InitServer /\ InitStream /\ IdleRequest
  /\ InitSearch /\ InitOther

NextQueue ==
  \/ Tick
  \/ createJob
  \/ getNextJob
  \/ updateJobProgress
  \/ completeJob
  \/ failJob
  \/ cleanupOldJobs

SpecQueue ==
  Init /\ [][NextQueue /\ UNCHANGED <<orchVars, srvVars, sseVars, authVars,
                                       searchVars,
                                       otherVars>>]_vars

NextOrch ==
  \/ LoadPlugin
  \/ \E query \in Queries, sources \in SourcePrefs, fmt \in ExportPrefs :
       StartResearch(1, query, sources, fmt)
  \/ \E i \in 1..Len(PluginFiles) : PluginReport(1, i)
  \/ \E i \in 1..Len(PluginFiles) : SearchSettle(1, i)
  \/ AnalysisSettle(1)
  \/ ExportSettle(1)

\* one executeResearch run, started at any point of the registry's loading
SpecOrch ==
  Init /\ [][NextOrch /\ UNCHANGED <<queueVars, srvVars, sseVars, authVars,
                                      searchVars,
                                      otherVars>>]_vars

\* the ids of the plugin files of one type, and the instance made of a file
FileIds(type) ==
  {PluginFiles[i].id : i \in {k \in 1..Len(PluginFiles) :
                                 PluginFiles[k].type = type}}
FileIndex(id) == CHOOSE i \in 1..Len(PluginFiles) : PluginFiles[i].id = id

\* the registry once initialize() has loaded every plugin file
InitLoaded ==
  /\ InitQueue
  /\ InitServer
  /\ InitStream
  /\ IdleRequest
  /\ InitSearch
  /\ InitOther
  /\ loaded = Len(PluginFiles)
  /\ sourcePlugins = <<"auto", "github", "reddit", "websearch", "custom">>
  /\ exportPlugins = <<"markdown", "customjson">>
  /\ redditReady = FALSE
  /\ run = [r \in RunIds |-> IdleRun]
  /\ limitQueue = <<>>
  /\ activeCount = 0
  /\ pluginObject =
       [source |-> [id \in FileIds("source") |-> FileIndex(id)],
        export |-> [id \in FileIds("export") |-> FileIndex(id)]]
  /\ pluginStats =
       [id \in FileIds("source") \cup FileIds("export") |-> NewStats]
  /\ lastCall = [n |-> 0, op |-> NULL, id |-> NULL]

\* the worker takes its jobs in order
NextJobRun(r) == \A q \in 1..(r - 1) : run[q].pc # "idle"

NextConc ==
  \/ \E r \in RunIds :
       NextJobRun(r) /\ StartResearch(r, {}, NoSources, NULL)
  \/ \E r \in RunIds, i \in 1..Len(PluginFiles) : PluginReport(r, i)
  \/ \E r \in RunIds, i \in 1..Len(PluginFiles) : SearchSettle(r, i)
  \/ \E r \in RunIds : AnalysisSettle(r)

\* the worker running several jobs on its shared orchestrator
SpecConc ==
  InitLoaded
    /\ [][NextConc /\ UNCHANGED <<queueVars, srvVars, sseVars, authVars,
                                 searchVars,
                                 otherVars>>]_vars

NextServer ==
  \/ \E args \in ServerArgs : ResearchBrief(args)
  \/ \E j \in 1..MaxServerJobs, outcome \in SimpleSearchOutcomes :
       SimpleSearchSettle(j, outcome)

\* the single-process server
SpecServer ==
  Init /\ [][NextServer /\ UNCHANGED <<queueVars, orchVars, sseVars, authVars,
                                        searchVars,
                                        otherVars>>]_vars

\* every search a job awaits eventually returns or throws
SearchesSettle ==
  \A j \in 1..MaxServerJobs :
    WF_vars(\E outcome \in SimpleSearchOutcomes :
              SimpleSearchSettle(j, outcome)
                /\ UNCHANGED <<queueVars, orchVars, sseVars, authVars,
                               searchVars,
                               otherVars>>)

SpecServerLive == SpecServer /\ SearchesSettle

NextStream ==
  \/ (createJob \/ getNextJob \/ completeJob \/ failJob) /\ UNCHANGED sse
  \/ (\E jobId \in JobIds : Connect(jobId)) /\ UNCHANGED queueVars
  \/ Poll /\ UNCHANGED queueVars
  \/ ClientClose /\ UNCHANGED queueVars

\* one progress stream next to the job queue it polls
SpecStream ==
  Init /\ [][NextStream /\ UNCHANGED <<orchVars, srvVars, authVars,
                                        searchVars,
                                        otherVars>>]_vars

\* calls of the registry's public methods, in any order
RegisterSource(id, plugin) ==
  /\ lastCall.n < MaxRegistryCalls
  /\ registerSourcePlugin(id, plugin)
  /\ Called("registerSourcePlugin", id)
  /\ UNCHANGED <<loaded, exportPlugins, redditReady, run, limitQueue,
                 activeCount>>

RegisterExport(id, plugin) ==
  /\ lastCall.n < MaxRegistryCalls
  /\ registerExportPlugin(id, plugin)
  /\ Called("registerExportPlugin", id)
  /\ UNCHANGED <<loaded, sourcePlugins, redditReady, run, limitQueue,
                 activeCount>>

UpdateStats(id, success, duration) ==
  /\ lastCall.n < MaxRegistryCalls
  /\ pluginStats' = updateStats(pluginStats, id, success, duration)
  /\ Called("updateStats", id)
  /\ UNCHANGED <<loaded, sourcePlugins, exportPlugins, redditReady, run,
                 limitQueue, activeCount, pluginObject>>

\* plugin ids and instances offered to the registry
RegistryIds == {"github", "markdown"}
Instances == 1..MaxInstances

NextRegistry ==
  \/ \E id \in RegistryIds, plugin \in Instances : RegisterSource(id, plugin)
  \/ \E id \in RegistryIds, plugin \in Instances : RegisterExport(id, plugin)
  \/ \E id \in RegistryIds, success \in BOOLEAN, duration \in Durations :
       UpdateStats(id, success, duration)

\* the plugin registry under arbitrary calls
SpecRegistry ==
  Init /\ [][NextRegistry /\ UNCHANGED <<queueVars, srvVars, sseVars,
                                          authVars, searchVars,
                                          otherVars>>]_vars

NextRetry ==
  \/ ClockTick
  \/ \E depth \in Depths : BeginSearch(1, depth)
  \/ \E outcome \in DoSearchOutcomes : Attempt(1, outcome)

\* one search call, doSearch failing in every way
SpecRetry ==
  Init /\ [][NextRetry /\ UNCHANGED <<queueVars, orchVars, srvVars, sseVars,
                                       authVars,
                                       otherVars>>]_vars

NextSearch ==
  \/ ClockTick
  \/ CleanupExpired
  \/ \E c \in SearchCalls, depth \in Depths : BeginSearch(c, depth)
  \/ \E c \in SearchCalls, outcome \in DoSearchOutcomes \ {"throws400"} :
       Attempt(c, outcome)

\* search calls of one BaseSourcePlugin, overlapping or not
SpecSearch ==
  Init /\ [][NextSearch /\ UNCHANGED <<queueVars, orchVars, srvVars, sseVars,
                                        authVars,
                                        otherVars>>]_vars

NextAuth ==
  \/ AuthGate
  \/ Dispatch

\* calls of the methods of one JobLifecycle, in any order
NextLifecycle ==
  \/ start
  \/ \E percentComplete \in {<<>>, <<150>>} :
       updateStep("Searching", percentComplete)
  \/ \E pluginId \in {"github", "reddit"},
         status \in {NULL, "completed", "failed"} :
       updatePluginStatus(pluginId, status)
  \/ succeed
  \/ lifecycleFail
  \/ cancel

SpecLifecycle ==
  Init /\ [][NextLifecycle /\ UNCHANGED <<queueVars, orchVars, srvVars,
                                           sseVars, authVars, searchVars,
                                           usage, workerJob>>]_vars

\* calls of the usage tool, overlapping or not, in any environment
NextUsage ==
  \/ \E c \in 1..MaxUsageCalls, jwt \in {NULL, "", "token"},
         org \in {NULL, "org"}, npmName \in {NULL, "pkg"},
         mcpName \in {NULL, "mcp"} :
       usageHandler(c, jwt, org, npmName, mcpName)
  \/ \E c \in 1..MaxUsageCalls, outcome \in {"ok", "notOk", "networkError"} :
       FetchSettle(c, outcome)
  \/ \E c \in 1..MaxUsageCalls,
         outcome \in {"body", "readError", "invalid", "null"} :
       BodySettle(c, outcome)

SpecUsage ==
  Init /\ [][NextUsage /\ UNCHANGED <<queueVars, orchVars, srvVars, sseVars,
                                       authVars, searchVars, lifecycle,
                                       workerJob>>]_vars

\* the worker: its jobs run on the shared orchestrator, whose 'progress'
\* events its listeners record
SpecWorker ==
  InitLoaded
    /\ [][NextConc /\ OnProgressEvent
            /\ UNCHANGED <<queueVars, srvVars, sseVars, authVars, searchVars,
                           lifecycle, usage>>]_vars

\* a request of any method, in any environment, with any token
InitRequest ==
  /\ InitQueue /\ InitOrch /\ InitServer /\ InitStream /\ InitSearch
  /\ InitOther
  /\ InitAuth

SpecAuth ==
  InitRequest
    /\ [][NextAuth /\ UNCHANGED <<queueVars, orchVars, srvVars, sseVars,
                                 searchVars,
                                 otherVars>>]_vars

\* ------------------------------------------------------------------------
\* Claims on the SQLite job queue
\* ------------------------------------------------------------------------

\* C1: every job has status 'completed' iff its result is set, and status
\* 'failed' iff its error is set.
C1_StatusIffResultError ==
  \A id \in DOMAIN jobs :
    /\ (jobs[id].status = "completed") <=> (jobs[id].result # NULL)
    /\ (jobs[id].status = "failed") <=> (jobs[id].error # NULL)

\* C2: once a job's status is 'completed' or 'failed', no later call
\* changes its status.
C2_TerminalIsFinal ==
  [][\A id \in DOMAIN jobs :
       jobs[id].status \in {"completed", "failed"}
         => (id \in DOMAIN jobs' => jobs'[id].status = jobs[id].status)]_vars

\* C11: each job is returned by getNextJob at most once, and the step that
\* returns it flips it from 'pending' to 'processing' and increments its
\* attempts.
C11_ReturnedAtMostOnce ==
  /\ [](\A id \in DOMAIN returned : returned[id] <= 1)
  /\ [][\A id \in DOMAIN returned :
          returned'[id] > returned[id]
            => /\ id \in DOMAIN jobs
               /\ jobs[id].status = "pending"
               /\ jobs'[id].status = "processing"
               /\ jobs'[id].attempts = jobs[id].attempts + 1
               /\ lastNext' = {id}]_vars

\* two getNextJob calls returned two different jobs, both processing
C11_Witness ==
  \E id, other \in DOMAIN jobs :
    /\ id # other
    /\ returned[id] = 1 /\ jobs[id].status = "processing"
    /\ returned[other] = 1 /\ jobs[other].status = "processing"

\* the job is terminal and its completed_at is older than the cutoff of
\* cleanupOldJobs(daysOld) called now
OldTerminal(id, daysOld) ==
  /\ jobs[id].status \in {"completed", "failed"}
  /\ now - jobs[id].completed_at > daysOld * SecondsPerDay

\* C20: cleanupOldJobs(daysOld) deletes exactly the terminal jobs whose
\* completed_at is older than the cutoff, with their job_progress rows,
\* leaves every other job and progress row unchanged, and returns the
\* number of jobs deleted.
C20_CleanupExact ==
  [][lastCleanup'.calls # lastCleanup.calls
       => LET old == {id \in DOMAIN jobs :
                        OldTerminal(id, lastCleanup'.daysOld)}
          IN /\ DOMAIN jobs' = DOMAIN jobs \ old
             /\ \A id \in DOMAIN jobs' : jobs'[id] = jobs[id]
             /\ DOMAIN job_progress' = DOMAIN job_progress \ old
             /\ \A id \in DOMAIN job_progress' :
                  job_progress'[id] = job_progress[id]
             /\ lastCleanup'.changes = Cardinality(old)]_vars

\* a cleanup deleted one job and left a terminal one in place
C20_Witness ==
  /\ lastCleanup.changes = 1
  /\ \E id \in DOMAIN jobs : jobs[id].status \in {"completed", "failed"}

\* ------------------------------------------------------------------------
\* Claims on the plugin orchestrator
\* ------------------------------------------------------------------------

\* C3: the progress values of the 'progress' events of one executeResearch
\* run never decrease, up to and including the event reporting completion.
C3_ProgressNonDecreasing ==
  \A i \in 1..(Len(run[1].emitted) - 1) :
    run[1].emitted[i] <= run[1].emitted[i + 1]

\* no registered source plugin supports the query
NoneSupports(query, sources) ==
  \A i \in 1..Len(sourcePlugins) : ~supports(sourcePlugins[i], query, sources)

\* no search of the run has been invoked
NoSearchInvoked(rec) == \A i \in DOMAIN rec.task : rec.task[i].st = "queued"

\* C4: if no registered source plugin supports the query, executeResearch
\* rejects with 'No plugins available' and no plugin's search is invoked,
\* then or later.
C4_NoPluginsRejects ==
  /\ [][\A query \in Queries, sources \in SourcePrefs, fmt \in ExportPrefs :
          (StartResearch(1, query, sources, fmt) /\ NoneSupports(query, sources))
            => /\ run'[1].pc = "rejected"
               /\ run'[1].error = NoPlugins
               /\ NoSearchInvoked(run'[1])]_vars
  /\ [](run[1].error = NoPlugins
          => run[1].pc = "rejected" /\ NoSearchInvoked(run[1]))

\* a registry with a plugin in it, none supporting the query
C4_Witness ==
  /\ run[1].pc = "rejected"
  /\ run[1].error = NoPlugins
  /\ run[1].sources = Sources({"reddit"})
  /\ sourcePlugins = <<"auto">>

\* every search of the run has settled
AllSettled(rec) ==
  /\ rec.task # <<>>
  /\ \A i \in DOMAIN rec.task : rec.task[i].st = "done"

\* C5: if every matched plugin's search throws or returns success=false,
\* executeResearch rejects with 'No documents collected from any source',
\* the job is marked failed and there is no analysis result.
C5_AllFailedRejects ==
  (/\ AllSettled(run[1])
   /\ \A i \in DOMAIN run[1].task :
        run[1].task[i].outcome \in {"unsuccessful", "throws"})
    => /\ run[1].pc = "rejected"
       /\ run[1].error = NoDocuments
       /\ run[1].status = "failed"
       /\ run[1].jobStatus = "failed"
       /\ ~run[1].analysis.set

\* three matched plugins, one throwing and two unsuccessful
C5_Witness ==
  /\ AllSettled(run[1])
  /\ Len(run[1].task) >= 3
  /\ \E i \in DOMAIN run[1].task : run[1].task[i].outcome = "throws"
  /\ \E i \in DOMAIN run[1].task : run[1].task[i].outcome = "unsuccessful"
  /\ \A i \in DOMAIN run[1].task :
       run[1].task[i].outcome \in {"unsuccessful", "throws"}
  /\ run[1].error = NoDocuments

\* C6: when the matching export plugin's export() throws, executeResearch
\* still resolves with the analysis result and the job ends completed.
C6_ExportFailureAbsorbed ==
  run[1].exportOutcome = "throws"
    => /\ run[1].pc = "resolved"
       /\ run[1].analysis.set
       /\ run[1].jobStatus = "succeeded"

\* searches in flight on the orchestrator
InFlight ==
  Cardinality({c \in RunIds \X (1..Len(PluginFiles)) :
                 /\ c[2] \in DOMAIN run[c[1]].task
                 /\ run[c[1]].task[c[2]].st = "running"})

\* C7: the number of searches in flight never exceeds maxConcurrency,
\* whatever the number of matched plugins and of concurrent runs.
C7_ConcurrencyBound == InFlight <= MaxConcurrency

\* two runs collecting, the limiter full and calls of both runs waiting
C7_Witness ==
  /\ InFlight = MaxConcurrency
  /\ run[1].pc = "collecting"
  /\ run[2].pc = "collecting"
  /\ \E i \in 1..Len(limitQueue) : limitQueue[i][1] = 1
  /\ \E i \in 1..Len(limitQueue) : limitQueue[i][1] = 2

\* C8: executeSourcePlugins returns one result per matched plugin, in the
\* order of the matched plugins; a throwing search yields FAILED, and it
\* neither ends the run nor keeps another search from settling.
C8_OneResultPerPlugin ==
  /\ (run[1].pc \notin {"idle", "collecting"} /\ run[1].matched # <<>>)
       => /\ Len(run[1].results) = Len(run[1].matched)
          /\ \A i \in DOMAIN run[1].matched :
               /\ run[1].results[i].pluginId = run[1].matched[i]
               /\ run[1].task[i].st = "done"
               /\ run[1].task[i].outcome = "throws"
                    => run[1].results[i].status = "failed"
               /\ run[1].task[i].outcome \in {"docs", "empty"}
                    => run[1].results[i].status = "completed"
  /\ (run[1].matched # <<>> /\ ~AllSettled(run[1]))
       => run[1].pc = "collecting"

\* a throwing plugin next to one that completed with documents
C8_Witness ==
  /\ run[1].pc = "resolved"
  /\ Len(run[1].results) >= 3
  /\ \E i \in DOMAIN run[1].results :
       /\ run[1].task[i].outcome = "throws"
       /\ run[1].results[i].status = "failed"
       /\ \E j \in DOMAIN run[1].results :
            j # i /\ run[1].results[j].status = "completed"

\* C9: a brief with sources: [] fails at once with 'No plugins available'.
C9_EmptySourcesRejected ==
  (run[1].pc # "idle" /\ run[1].sources = Sources({}))
    => run[1].pc = "rejected" /\ run[1].error = NoPlugins

\* C9 as amended: with AutoSourcePlugin registered, a brief with
\* sources: [] matches the auto plugin and goes on to data collection; it
\* is rejected with 'No plugins available' only when no registered plugin
\* supports the query.
C9_EmptySourcesMatchAuto ==
  [][\A query \in Queries, fmt \in ExportPrefs :
       StartResearch(1, query, Sources({}), fmt)
         => /\ Contains(sourcePlugins, "auto")
                 => /\ run'[1].pc = "collecting"
                    /\ Contains(run'[1].matched, "auto")
            /\ run'[1].error = NoPlugins
                 <=> NoneSupports(query, Sources({}))]_vars

C9_Witness ==
  /\ run[1].sources = Sources({})
  /\ run[1].pc = "collecting"
  /\ Contains(run[1].matched, "auto")

\* C10: with a non-empty sources list, a source is searched only if it is
\* named in the list.
C10_OnlyListedSourcesSearched ==
  (run[1].sources.given /\ run[1].sources.list # {})
    => \A i \in DOMAIN run[1].task :
         run[1].task[i].st # "queued"
           => run[1].matched[i] \in run[1].sources.list

\* ------------------------------------------------------------------------
\* Claims on the single-process server
\* ------------------------------------------------------------------------

Processing == {j \in DOMAIN srvJobs : srvJobs[j].status = "processing"}

\* C12: at most 3 jobs have status 'processing' at any time, and a job
\* leaves 'pending' while 3 were processing only in a step in which a
\* processing job reaches a terminal status.
C12_AtMostThreeProcessing ==
  /\ [](Cardinality(Processing) <= 3)
  /\ [][\A j \in DOMAIN srvJobs :
          (srvJobs[j].status = "pending" /\ srvJobs'[j].status # "pending"
             /\ Cardinality(Processing) = 3)
            => \E k \in Processing :
                 srvJobs'[k].status \in {"completed", "failed"}]_vars

\* three jobs are processing and a fourth, submitted meanwhile, is pending
C12_Witness ==
  /\ Cardinality(Processing) = 3
  /\ \E j \in DOMAIN srvJobs :
       srvJobs[j].status = "pending" /\ srvJobs[j].args.given

\* C15: every job created by research_brief eventually reaches status
\* 'completed' or 'failed', provided every search eventually settles.
C15_EveryJobTerminates ==
  \A j \in 1..MaxServerJobs :
    (j \in DOMAIN srvJobs)
      ~> (j \in DOMAIN srvJobs
            /\ srvJobs[j].status \in {"completed", "failed"})

\* ------------------------------------------------------------------------
\* Claims on the progress stream
\* ------------------------------------------------------------------------

\* the frames the step has written
Written == SubSeq(sse'.log, Len(sse.log) + 1, Len(sse'.log))

\* no earlier poll has observed a terminal status
NoneObserved ==
  \A i \in 1..Len(sse.log) : sse.log[i] \notin {"completed", "failed"}

\* C13: each poll of an existing job writes one 'progress' frame; the first
\* poll observing 'completed' or 'failed' also writes one event named after
\* the status, ends the response and stops polling; nothing is written
\* after the response has ended.
C13_StreamFrames ==
  /\ [][(sse'.polls = sse.polls + 1 /\ sse.jobId \in DOMAIN jobs)
          => LET status == jobs[sse.jobId].status
             IN IF status \in {"completed", "failed"} /\ NoneObserved
                  THEN /\ Written = <<"progress", status, "end">>
                       /\ ~sse'.polling
                  ELSE Written = <<"progress">>]_vars
  /\ [](\A i \in 1..Len(sse.log) : sse.log[i] = "end" => i = Len(sse.log))
  /\ [][(Len(sse.log) > 0 /\ sse.log[Len(sse.log)] = "end")
          => sse'.log = sse.log]_vars

\* polls saw the job running, then failed, and the response has ended
C13_Witness ==
  /\ sse.log = <<"connected", "progress", "progress", "failed", "end">>
  /\ ~sse.polling
  /\ sse.polls < MaxPolls

\* ------------------------------------------------------------------------
\* Claims on the JSON-RPC endpoint
\* ------------------------------------------------------------------------

\* C14: a request whose method is outside the public allowlist reaches a
\* tool handler without a verified JWT only when SKIP_AUTH=true and the
\* environment is development.
C14_NoHandlerWithoutJwt ==
  (req.stage = "tool" /\ req.method \notin publicMethods /\ req.user # "jwt")
    => (req.skipAuth = "true" /\ req.nodeEnv = "development")

\* ------------------------------------------------------------------------
\* Claims on the plugin registry
\* ------------------------------------------------------------------------

\* the id is registered, as a source or as an export plugin
Registered(id) == Contains(sourcePlugins, id) \/ Contains(exportPlugins, id)

\* the step is a registration call
Registers ==
  /\ lastCall'.n # lastCall.n
  /\ lastCall'.op \in {"registerSourcePlugin", "registerExportPlugin"}

\* the plugins held under the id, as a source and as an export plugin
Held(objects, id) ==
  <<IF id \in DOMAIN objects.source THEN objects.source[id] ELSE 0,
    IF id \in DOMAIN objects.export THEN objects.export[id] ELSE 0>>

\* C16: registering a plugin whose id is already registered leaves the
\* plugin previously registered under that id and the id's recorded call
\* statistics unchanged.
C16_ReRegisterNoOp ==
  [][(Registers /\ Registered(lastCall'.id))
       => LET id == lastCall'.id
          IN /\ pluginStats'[id] = pluginStats[id]
             /\ \A k \in 1..2 :
                  Held(pluginObject, id)[k] # 0
                    => Held(pluginObject', id)[k] = Held(pluginObject, id)[k]]_vars

\* ------------------------------------------------------------------------
\* Claims on BaseSourcePlugin.search
\* ------------------------------------------------------------------------

\* C17: in one uncached search call in which doSearch fails every time,
\* doSearch is attempted at most 3 times before the failure is returned.
C17_AtMostThreeAttempts ==
  \A c \in SearchCalls :
    (search[c].pc = "returned" /\ ~search[c].cached
       /\ search[c].code # NULL)
      => search[c].invoked <= 3

\* C18: when doSearch fails with an error classified as USER_ERROR, search
\* does not retry: doSearch is invoked exactly once and the USER_ERROR is
\* surfaced in the returned result.
C18_UserErrorNotRetried ==
  \A c \in SearchCalls :
    search[c].first400
      => /\ search[c].invoked = 1
         /\ search[c].pc = "returned" => search[c].code = "USER_ERROR"

\* the call c starts in this step
Starts(c) == search[c].pc = "idle" /\ search'[c].pc # "idle"

\* the call c is answered from the cache in this step
ServedFromCache(c) ==
  /\ search'[c].pc = "returned"
  /\ search'[c].cached
  /\ search'[c].invoked = 0

\* some search with the key has returned success = true (from doSearch or
\* from the cache) less than the TTL ago
RecentSuccess(key) ==
  \E b \in SearchCalls :
    /\ search[b].pc = "returned"
    /\ getCacheKey(search[b].depth) = key
    /\ search[b].success
    /\ clock - search[b].at < CacheTTL

\* C19 as stated: a search is answered from the cache iff an earlier search
\* with the same plugin, query and depth returned success = true less than
\* the TTL ago.
C19_CachedIffRecentSuccess ==
  [][\A c \in SearchCalls :
       Starts(c) => (ServedFromCache(c)
                       <=> RecentSuccess(getCacheKey(search'[c].depth)))]_vars

\* C19, amended: a search is answered from the cache iff an earlier search
\* with the same key ran doSearch, returned success = true and stored its
\* result less than the TTL ago, a result being stored only when no stored
\* result for the key is still unexpired; what the cache serves has
\* success = true.
C19_CachedIffStored ==
  /\ [][\A c \in SearchCalls :
          Starts(c)
            => LET key == getCacheKey(search'[c].depth)
               IN ServedFromCache(c)
                    <=> (stored[key].set /\ clock - stored[key].at < CacheTTL)]_vars
  /\ [](\A c \in SearchCalls :
          (search[c].pc = "returned" /\ search[c].cached)
            => search[c].success)

\* a search was answered from the cache, and a later one with the same key
\* was not, the entry having expired
C19_Witness ==
  \E b, c \in SearchCalls :
    /\ b < c
    /\ getCacheKey(search[b].depth) = getCacheKey(search[c].depth)
    /\ search[b].pc = "returned" /\ search[b].cached
    /\ search[c].pc = "returned" /\ ~search[c].cached

\* ------------------------------------------------------------------------
\* Claims on the progress values of executeResearch
\* ------------------------------------------------------------------------

\* the progress value of the last 'progress' event of the run
LastEmitted(rec) == rec.emitted[Len(rec.emitted)]

\* C21: with n >= 1 matched plugins, the progress reported once the
\* data-collection phase is complete is 45, and the progress reported
\* once the analysis phase is complete is 85.
C21_PhaseProgress ==
  \A r \in RunIds :
    /\ ( /\ "data_collection" \in run[r].phasesDone
         /\ "analysis" \notin run[r].phasesDone )
         => LastEmitted(run[r]) = 45
    /\ ( /\ "analysis" \in run[r].phasesDone
         /\ "export" \notin run[r].phasesDone
         /\ run[r].status = "running" )
         => LastEmitted(run[r]) = 85

\* C28: every 'progress' event of executeResearch carries a progress
\* value between 0 and 100 inclusive.
C28_ProgressWithinRange ==
  \A r \in RunIds :
    \A i \in 1..Len(run[r].emitted) :
      run[r].emitted[i] >= 0 /\ run[r].emitted[i] <= 100

\* ------------------------------------------------------------------------
\* Claims on the outcome of a job of the single-process server
\* ------------------------------------------------------------------------

\* C22: a job of the single-process server that has enabled sources and
\* whose searches all fail, so that zero documents are collected, ends with
\* status 'failed' rather than 'completed'.
C22_ZeroDocumentsFails ==
  \A j \in DOMAIN srvJobs :
    ( /\ srvJobs[j].pc = "done"
      /\ srvJobs[j].args.given
      /\ enabledSources(srvJobs[j].args) # {}
      /\ srvJobs[j].found = 0 )
      => srvJobs[j].status = "failed"

\* ------------------------------------------------------------------------
\* Claims on the order in which the job queue hands out jobs
\* ------------------------------------------------------------------------

\* the pending jobs with attempts < 3
Eligible ==
  {i \in DOMAIN jobs : jobs[i].status = "pending" /\ jobs[i].attempts < 3}

\* C23: getNextJob returns a pending job whose created_at is minimal among
\* the pending jobs with attempts < 3, and returns null exactly when there
\* is no such job; processing, completed and failed jobs are never returned.
C23_OldestPendingFirst ==
  [][ /\ \A id \in DOMAIN returned :
           returned'[id] > returned[id]
             => /\ id \in Eligible
                /\ \A j \in Eligible :
                     jobs[id].created_at <= jobs[j].created_at
      /\ (lastNext' # lastNext /\ lastNext' = {}) => Eligible = {}
      /\ (lastNext' # lastNext /\ Eligible = {}) => lastNext' = {}
    ]_vars

\* getNextJob has returned the older of two pending jobs and left the
\* newer one pending
C23_Witness ==
  \E id, other \in DOMAIN jobs :
    /\ lastNext = {id}
    /\ jobs[id].status = "processing"
    /\ jobs[other].status = "pending"
    /\ jobs[other].created_at > jobs[id].created_at

\* ------------------------------------------------------------------------
\* Claims on the status report of services/queue.ts
\* ------------------------------------------------------------------------

\* C29: getJobStatus reports status 'completed' with progress 100 for every
\* job whose stored status is 'completed', whatever result completeJob was
\* given.
C29_CompletedReported ==
  \A id \in DOMAIN jobs :
    jobs[id].status = "completed"
      => /\ getJobStatus(id).status = "completed"
         /\ getJobStatus(id).progress = 100

\* ------------------------------------------------------------------------
\* Claims on JobLifecycle
\* ------------------------------------------------------------------------

\* C24: after any sequence of JobLifecycle operations the message log holds
\* at most 100 entries, and they are the most recently added messages in
\* insertion order.
C24_LastHundredMessages ==
  LET n == Len(lifecycle.messages)
  IN /\ n <= 100
     /\ n = IF lifecycle.added < 100 THEN lifecycle.added ELSE 100
     /\ \A i \in 1..n : lifecycle.messages[i] = lifecycle.added - n + i

\* more than 100 messages were added and the oldest ones are gone
C24_Witness ==
  /\ lifecycle.added > 100
  /\ Len(lifecycle.messages) = 100
  /\ lifecycle.messages[1] = lifecycle.added - 99
  /\ lifecycle.op \in {"start", "updateStep", "succeed", "fail", "cancel"}

\* some plugin has failed and another one has completed
FailedAndCompleted(pluginStatuses) ==
  \E q, o \in DOMAIN pluginStatuses :
    q # o /\ pluginStatuses[q] = "failed" /\ pluginStatuses[o] = "completed"

\* C25: after any updatePluginStatus call that leaves at least one plugin
\* 'failed' and at least one other 'completed', the overall status is
\* PARTIAL_OK.
C25_PartialOk ==
  ( /\ lifecycle.op = "updatePluginStatus"
    /\ FailedAndCompleted(lifecycle.pluginStatuses) )
    => lifecycle.status = "partial_ok"

\* updatePluginStatus has just recorded the second of a failed and a
\* completed plugin on a job that had succeeded
C25_Witness ==
  /\ lifecycle.op = "updatePluginStatus"
  /\ FailedAndCompleted(lifecycle.pluginStatuses)
  /\ lifecycle.status = "partial_ok"
  /\ lifecycle.percentComplete = 100

\* C30: once succeed(), fail() or cancel() has set the status to SUCCEEDED,
\* FAILED or CANCELLED, no later call to start, updateStep or
\* updatePluginStatus changes that status.
C30_TerminalStatusKept ==
  [][ ( /\ lifecycle.status \in {"succeeded", "failed", "cancelled"}
        /\ lifecycle'.op \in {"start", "updateStep", "updatePluginStatus"} )
        => lifecycle'.status = lifecycle.status ]_vars

\* ------------------------------------------------------------------------
\* Claims on the usage tool
\* ------------------------------------------------------------------------

\* C26: usageTool.handler never rejects: a missing context.jwt, missing
\* configuration, a non-OK gateway response and a network failure each
\* give a resolved result with an error field, and when context.jwt is
\* missing no gateway request is made.
C26_UsageNeverRejects ==
  \A c \in 1..MaxUsageCalls :
    /\ usage[c].pc # "rejected"
    /\ ( /\ usage[c].pc # "idle"
         /\ usage[c].jwt \in {NULL, ""} )
         => /\ usage[c].pc = "resolved"
            /\ usage[c].error # NULL
            /\ ~usage[c].requested
    /\ (usage[c].pc # "idle" /\ ~usage[c].configured)
         => /\ usage[c].pc = "resolved"
            /\ usage[c].error # NULL
    /\ usage[c].response = "networkError"
         => /\ usage[c].pc = "resolved"
            /\ usage[c].error # NULL
    /\ (usage[c].response = "notOk" /\ usage[c].pc = "resolved")
         => usage[c].error # NULL

\* one call ended by a network failure and one made without a jwt, both
\* resolved with an error
C26_Witness ==
  \E c, d \in 1..MaxUsageCalls :
    /\ usage[c].pc = "resolved"
    /\ usage[c].response = "networkError"
    /\ usage[c].error = "Failed to fetch usage stats"
    /\ usage[d].pc = "resolved"
    /\ usage[d].jwt \in {NULL, ""}
    /\ usage[d].error = "Authentication required"
    /\ ~usage[d].requested

\* ------------------------------------------------------------------------
\* Claims on the worker's progress listeners
\* ------------------------------------------------------------------------

\* C27: a 'progress' event emitted for job J updates only job J's recorded
\* progress; the recorded progress of another job, running or finished,
\* changes only by that job's own events and completion.
C27_ProgressOfOwnJobOnly ==
  [][ \A k \in RunIds :
        workerJob'[k] # workerJob[k]
          => \/ run'[k].emitted # run[k].emitted
             \/ run'[k].pc = "resolved" /\ run[k].pc # "resolved" ]_vars

====
